---- MODULE Spec2Model ----
(***************************************************************************)
(* The packfile decoder of rgit (src/src/pack.rs): PackFile::from_file     *)
(* reads the 12-byte header, read_packfile_objects decodes num_objects     *)
(* objects from the rest of the file.  One behaviour of the model is one   *)
(* call of from_file on one file, on one build of the program.             *)
(*                                                                         *)
(* Bytes are the integers 0..255.  A u32 is an integer.  A usize is the    *)
(* set of the positions of its one bits (bit 0 is the least significant):  *)
(* the values reach 2^63, the arithmetic on them is done bit by bit, and   *)
(* its width is that of the target the program is built for.               *)
(***************************************************************************)
EXTENDS Integers, Sequences, FiniteSets, TLC

(***************************************************************************)
(* Bounds of the model: how many segments a file body is made of, and the  *)
(* largest object count a header declares.                                 *)
(***************************************************************************)
MaxSegs == 2
MaxCount == 2

(***************************************************************************)
(* Program constants.                                                      *)
(***************************************************************************)
MAGIC_HEADER == 1346454347
BaseLen == 20

(***************************************************************************)
(* Byte arithmetic, as the expressions of pack.rs compute it.              *)
(***************************************************************************)
\* c & 0x80 > 0
ContinuationBit(c) == c \div 128 = 1
\* c & 0x7f
Low7(c) == c % 128
\* c & 15
Low4(c) == c % 16
\* (c >> 4) & 7
TypeId(c) == (c \div 16) % 8

RECURSIVE Pow2(_)
Pow2(n) == IF n = 0 THEN 1 ELSE 2 * Pow2(n - 1)

\* `x as usize` for a byte x: the positions of the one bits of x.
AsUsize(x) == {b \in 0..7 : (x \div Pow2(b)) % 2 = 1}

\* x << s on a usize of w bits, for s < w: the bits shifted out are dropped.
ShlUsize(x, s, w) == {b + s : b \in {a \in x : a + s < w}}

\* The carry into bit i of a + b: some lower bit generates a carry (both
\* operands have it) and every bit between passes it on (either has it).
CarryInto(a, b, i) ==
  \E j \in a \cap b :
    /\ j < i
    /\ \A k \in (j + 1)..(i - 1) : k \in a \/ k \in b

\* a + b on a usize of w bits: the wrapped sum and whether it overflowed.
AddUsize(a, b, w) ==
  [sum |-> {i \in 0..(w - 1) :
              ((i \in a) # (i \in b)) # CarryInto(a, b, i)},
   overflow |-> CarryInto(a, b, w)]

(***************************************************************************)
(* The zlib stream the decompression adapter (flate2's ZlibDecoder)        *)
(* inflates, reduced to one stored block: a header byte, the number of     *)
(* data bytes, the data bytes, a check byte.                               *)
(***************************************************************************)
\* The CMF byte of zlib: method 8 (deflate), window 7.
ZHeader == 8 + 16 * 7

RECURSIVE SumBytes(_)
SumBytes(s) == IF s = <<>> THEN 0 ELSE Head(s) + SumBytes(Tail(s))

ZCheck(data) == (1 + SumBytes(data)) % 256

ZBlock(data) == <<ZHeader, Len(data)>> \o data \o <<ZCheck(data)>>

Min(a, b) == IF a < b THEN a ELSE b

\* z.read(&mut buf[..]) on a buffer of length 0, with `rest` the bytes from
\* the position the decoder was created at, and then z.total_in(): the
\* results the library can give.  No byte is written: read returns Ok(0),
\* or an error on a stream that is not zlib's.  The input consumed is what
\* the inflater got through before it needed room for output: all of a
\* block without data, and anything from the two leading bytes to the whole
\* block when there is data to write.  Finding the source exhausted inside
\* a block is Ok(0) or an error, as the library's version has it.
ZlibReadNoRoom(rest) ==
  IF rest = <<>> THEN {[ok |-> o, total_in |-> 0] : o \in BOOLEAN}
  ELSE IF rest[1] # ZHeader THEN {[ok |-> FALSE, total_in |-> 0]}
  ELSE IF Len(rest) = 1 THEN {[ok |-> o, total_in |-> 1] : o \in BOOLEAN}
  ELSE LET n == rest[2]
           avail == Len(rest)
           data == SubSeq(rest, 3, n + 2)
           oks(k) == IF k = n + 3 THEN {rest[k] = ZCheck(data)}
                     ELSE IF k = avail THEN BOOLEAN
                     ELSE {TRUE}
       IN UNION {{[ok |-> o, total_in |-> k] : o \in oks(k)} :
                   k \in (IF n = 0 THEN Min(avail, 3) ELSE 2)..Min(avail, n + 3)}

(***************************************************************************)
(* The files decoded.  A file is a header, whole or cut short, followed by *)
(* a body made of at most MaxSegs segments: object headers of every type   *)
(* tag, size continuation bytes, offset bytes, a 20-byte base identifier,  *)
(* compressed blocks.                                                      *)
(***************************************************************************)
Id20 == [k \in 1..BaseLen |-> k]
ZEmpty == ZBlock(<<>>)
ZOne == ZBlock(<<97>>)

\* n continuation bytes without payload (0x80).
RECURSIVE Cont(_)
Cont(n) == IF n = 0 THEN <<>> ELSE <<128>> \o Cont(n - 1)

\* First bytes of objects of every type tag, with size 0 (0x10 .. 0x70),
\* of a Blob of size 1 (0x31) and of tag 0 with size 1 (0x01).
FirstBytes == {<<16>>, <<32>>, <<48>>, <<64>>, <<80>>, <<96>>, <<112>>,
               <<49>>, <<1>>}

\* Size headers of a Blob of 2, 3, 5, 6, 9, 10 and 11 bytes, and two that
\* end on a continuation byte.
SizeHeaders ==
  { <<177, 1>>, <<176, 133, 127>>,
    <<176>> \o Cont(3) \o <<127>>, <<176>> \o Cont(4) \o <<1>>,
    <<176>> \o Cont(7) \o <<127>>, <<176>> \o Cont(8) \o <<127>>,
    <<176>> \o Cont(9) \o <<1>>,
    <<176>> \o Cont(3), <<133>> }

\* Offsets encoded in 1, 2 and 3 bytes, and one that ends on a
\* continuation byte.
OffsetBytes == {<<5>>, <<133, 16>>, <<133, 133, 16>>, <<133, 133, 133>>}

\* Whole objects: a Blob of size 0 and a RefDelta of size 0, each with a
\* compressed block that inflates to nothing.
WholeObjects == {<<48>> \o ZEmpty, <<112>> \o Id20 \o ZEmpty}

Segments ==
  FirstBytes \cup SizeHeaders \cup OffsetBytes \cup WholeObjects
  \cup {Id20, ZEmpty, ZOne}

RECURSIVE Bodies(_)
Bodies(n) ==
  IF n = 0 THEN {<<>>}
  ELSE LET shorter == Bodies(n - 1)
       IN shorter \cup {b \o s : b \in shorter, s \in Segments}

\* The four bytes of a u32 below 2^31, most significant first.
BeBytes(x) ==
  <<x \div 16777216, (x \div 65536) % 256, (x \div 256) % 256, x % 256>>

Header(m, v, n) == BeBytes(m) \o BeBytes(v) \o BeBytes(n)

\* "PACK", "XXXX" and "PACJ".
Magics == {MAGIC_HEADER, 1482184792, 1346454346}
Versions == {1, 2}

Headers == {Header(m, v, n) : m \in Magics, v \in Versions, n \in 0..MaxCount}

Files ==
  {Header(MAGIC_HEADER, 2, n) \o b : n \in 0..MaxCount, b \in Bodies(MaxSegs)}
  \cup {h \o b : h \in Headers, b \in {<<>>, <<48>> \o ZEmpty}}
  \cup {SubSeq(h, 1, k) : h \in Headers, k \in 0..11}

VARIABLES
  file,             \* the bytes of the file from_file is called on
  usize_bits,       \* the width of usize on the target
  overflow_checks,  \* whether the build panics on arithmetic overflow
  pc,               \* the place in pack.rs the decoder is at
  outcome,          \* "running", "returned", or the message of the panic
  magic, version, num_objects,
  cursor,           \* position of `cursor` in `contents`
  i, c, type_id, size, shift, obj_type, objects,
  offset, ofs_shift,
  obj_start,        \* the cursor where the current object's header began
  ofs_start,        \* the cursor where read_offset began
  current,          \* `current` of read_object_content
  starts            \* obj_start of every object pushed

vars == <<file, usize_bits, overflow_checks, pc, outcome, magic, version,
          num_objects, cursor, i, c, type_id, size, shift, obj_type, objects,
          offset, ofs_shift, obj_start, ofs_start, current, starts>>

\* `contents`: what read_to_end gets, the file after its 12 header bytes.
contents == SubSeq(file, 13, Len(file))

Running == outcome = "running"

Init ==
  /\ file \in Files
  /\ usize_bits \in {32, 64}
  /\ overflow_checks \in BOOLEAN
  /\ pc = "from_file"
  /\ outcome = "running"
  /\ magic = 0 /\ version = 0 /\ num_objects = 0
  /\ cursor = 0
  /\ i = 0 /\ c = 0 /\ type_id = 0 /\ size = {} /\ shift = 0
  /\ obj_type = [kind |-> "None", arg |-> <<>>]
  /\ objects = <<>>
  /\ offset = 0 /\ ofs_shift = 0
  /\ obj_start = 0 /\ ofs_start = 0 /\ current = 0
  /\ starts = <<>>

(***************************************************************************)
(* The panics of pack.rs and of the arithmetic it does.                    *)
(***************************************************************************)
PanicReadByte == "error read_byte"
PanicReadBe32 == "error read_be_32"
PanicMagic == "Packfile failed to parse"
PanicObjectType == "Error parsing object type in packfile"
PanicContent == "Wat"
PanicOverflow == "arithmetic overflow"
PanicCapacity == "capacity overflow"

\* read_be_u32 on a buffer of four bytes read: the loop of lines 160-163.
\* Four steps from 0 shift nothing out of the 32 bits.
RECURSIVE FoldBe(_, _)
FoldBe(result, buf) ==
  IF buf = <<>> THEN result ELSE FoldBe(result * 256 + Head(buf), Tail(buf))

\* read_be_u32 with `at` bytes of the file already read: the value, or the
\* panic when r.read gives fewer than 4 bytes.
ReadBeU32(at) ==
  IF Len(file) - at >= 4
    THEN [ok |-> TRUE, value |-> FoldBe(0, SubSeq(file, at + 1, at + 4))]
    ELSE [ok |-> FALSE, value |-> 0]

\* The comparison with the last byte of the magic left out.
MagicOkHigh(m) == m \div 256 = MAGIC_HEADER \div 256

\* magic == MAGIC_HEADER
MagicOk(m) == m = MAGIC_HEADER

\* PackFile::from_file up to the call of read_packfile_objects, with the
\* read_to_end and the Cursor::new that begin it.
FromFile ==
  /\ pc = "from_file" /\ Running
  /\ LET m == ReadBeU32(0)
         v == ReadBeU32(4)
         n == ReadBeU32(8)
     IN IF ~(m.ok /\ v.ok /\ n.ok)
          THEN /\ outcome' = PanicReadBe32
               /\ magic' = m.value /\ version' = v.value
               /\ num_objects' = n.value
               /\ UNCHANGED pc
          ELSE /\ magic' = m.value /\ version' = v.value
               /\ num_objects' = n.value
               /\ IF MagicOk(m.value)
                    THEN pc' = "for" /\ UNCHANGED outcome
                    ELSE outcome' = PanicMagic /\ UNCHANGED pc
  /\ UNCHANGED <<file, usize_bits, overflow_checks, cursor, i, c, type_id,
                 size, shift, obj_type, objects, offset, ofs_shift,
                 obj_start, ofs_start, current, starts>>

\* Whether read_byte finds a byte at the cursor.
HasByte == cursor < Len(contents)
NextByte == contents[cursor + 1]

\* The range taken to include its end, 0..=num_objects.
RangeInclusive(k, n) == k <= n

\* for i in 0..num_objects: whether the range has a next element.
RangeHasNext(k, n) == k < n

\* The head of the loop body, lines 58-62: the first byte of an object.
NextObject ==
  /\ pc = "for" /\ Running /\ RangeHasNext(i, num_objects)
  /\ obj_start' = cursor
  /\ IF HasByte
       THEN /\ c' = NextByte
            /\ cursor' = cursor + 1
            /\ type_id' = TypeId(NextByte)
            /\ size' = AsUsize(Low4(NextByte))
            /\ shift' = 4
            /\ pc' = "while"
            /\ UNCHANGED outcome
       ELSE /\ outcome' = PanicReadByte
            /\ UNCHANGED <<c, cursor, type_id, size, shift, pc>>
  /\ UNCHANGED <<file, usize_bits, overflow_checks, magic, version,
                 num_objects, i, obj_type, objects, offset, ofs_shift,
                 ofs_start, current, starts>>

\* The range is exhausted: read_packfile_objects returns `objects` and
\* from_file the PackFile, lines 85 and 38-42.
Return ==
  /\ pc = "for" /\ Running /\ ~RangeHasNext(i, num_objects)
  /\ pc' = "done"
  /\ outcome' = "returned"
  /\ UNCHANGED <<file, usize_bits, overflow_checks, magic, version,
                 num_objects, cursor, i, c, type_id, size, shift, obj_type,
                 objects, offset, ofs_shift, obj_start, ofs_start, current,
                 starts>>

\* The width of a continuation byte's payload: shift += 7.
ShiftStep == 7

\* The addition with the mask 0x7f left out: the continuation bit of the
\* byte is added to the size with its payload.
SizeAddUnmasked(sz, byte, sh, w) ==
  LET term == ShlUsize(AsUsize(byte), sh % w, w)
      sum == AddUsize(sz, term, w)
  IN [overflow |-> sh >= w \/ sum.overflow, value |-> sum.sum]

\* size += ((c & 0x7f) as usize) << shift, on a usize of w bits.  A shift
\* of w or more panics when overflow is checked and is taken modulo w when
\* it is not; so does a sum that does not fit.
SizeAdd(sz, byte, sh, w) ==
  LET term == ShlUsize(AsUsize(Low7(byte)), sh % w, w)
      sum == AddUsize(sz, term, w)
  IN [overflow |-> sh >= w \/ sum.overflow, value |-> sum.sum]

\* One turn of the while loop of lines 67-71.
SizeLoop ==
  /\ pc = "while" /\ Running /\ ContinuationBit(c)
  /\ IF ~HasByte
       THEN /\ outcome' = PanicReadByte
            /\ UNCHANGED <<c, cursor, size, shift>>
       ELSE LET add == SizeAdd(size, NextByte, shift, usize_bits)
            IN /\ c' = NextByte
               /\ cursor' = cursor + 1
               /\ IF add.overflow /\ overflow_checks
                    THEN /\ outcome' = PanicOverflow
                         /\ UNCHANGED <<size, shift>>
                    ELSE /\ size' = add.value
                         /\ shift' = shift + ShiftStep
                         /\ UNCHANGED outcome
  /\ UNCHANGED <<file, usize_bits, overflow_checks, pc, magic, version,
                 num_objects, i, type_id, obj_type, objects, offset,
                 ofs_shift, obj_start, ofs_start, current, starts>>

\* The match with the arms of Tree and Blob exchanged.
DirectKindSwapped(id) ==
  CASE id = 1 -> "Commit"
    [] id = 2 -> "Blob"
    [] id = 3 -> "Tree"
    [] id = 4 -> "Tag"

\* The match of read_object_type on the tags without metadata.
DirectKind(id) ==
  CASE id = 1 -> "Commit"
    [] id = 2 -> "Tree"
    [] id = 3 -> "Blob"
    [] id = 4 -> "Tag"

\* The bytes read_object_type reads for tag 7: for i in range(0, 20).
BaseBytes(at) == SubSeq(contents, at + 1, at + BaseLen)

\* read_object_type and the expect on its result, lines 73-75 and 107-125,
\* entered when the while loop ends.  Tag 6 enters read_offset.
ReadObjectType ==
  /\ pc = "while" /\ Running /\ ~ContinuationBit(c)
  /\ CASE type_id \in 1..4 ->
            /\ obj_type' = [kind |-> DirectKind(type_id), arg |-> <<>>]
            /\ pc' = "read_object_content"
            /\ UNCHANGED <<outcome, cursor, offset, ofs_shift, ofs_start>>
       [] type_id = 6 ->
            /\ offset' = 0
            /\ ofs_shift' = 0
            /\ ofs_start' = cursor
            /\ pc' = "read_offset"
            /\ UNCHANGED <<outcome, cursor, obj_type>>
       [] type_id = 7 ->
            IF Len(contents) - cursor >= BaseLen
              THEN /\ obj_type' = [kind |-> "RefDelta", arg |-> BaseBytes(cursor)]
                   /\ cursor' = cursor + BaseLen
                   /\ pc' = "read_object_content"
                   /\ UNCHANGED <<outcome, offset, ofs_shift, ofs_start>>
              ELSE /\ outcome' = PanicReadByte
                   /\ cursor' = Len(contents)
                   /\ pc' = "read_object_type"
                   /\ UNCHANGED <<obj_type, offset, ofs_shift, ofs_start>>
       [] OTHER ->
            /\ outcome' = PanicObjectType
            /\ pc' = "read_object_type"
            /\ UNCHANGED <<cursor, obj_type, offset, ofs_shift, ofs_start>>
  /\ UNCHANGED <<file, usize_bits, overflow_checks, magic, version,
                 num_objects, i, c, type_id, size, shift, objects, obj_start,
                 current, starts>>

\* offset += (c & 0x7f) << shift on the u8 `offset`: a shift of 8 or more
\* panics when overflow is checked and is taken modulo 8 when it is not; so
\* does a sum above 255.  The bits shifted out of the u8 are dropped.
OffsetAdd(off, byte, sh) ==
  LET term == (Low7(byte) * Pow2(sh % 8)) % 256
      sum == off + term
  IN [overflow |-> sh >= 8 \/ sum >= 256, value |-> sum % 256]

\* Whether the loop of read_offset ends after reading `byte`: it is
\* `loop { .. }` without a break.
OffsetLoopEnds(byte) == FALSE

\* One turn of the loop of read_offset, lines 137-141, and its return.
ReadOffset ==
  /\ pc = "read_offset" /\ Running
  /\ IF ~HasByte
       THEN /\ outcome' = PanicReadByte
            /\ UNCHANGED <<c, cursor, offset, ofs_shift, obj_type, pc>>
       ELSE LET add == OffsetAdd(offset, NextByte, ofs_shift)
            IN /\ c' = NextByte
               /\ cursor' = cursor + 1
               /\ IF add.overflow /\ overflow_checks
                    THEN /\ outcome' = PanicOverflow
                         /\ UNCHANGED <<offset, ofs_shift, obj_type, pc>>
                    ELSE /\ offset' = add.value
                         /\ ofs_shift' = ofs_shift + ShiftStep
                         /\ UNCHANGED outcome
                         /\ IF OffsetLoopEnds(NextByte)
                              THEN /\ obj_type' = [kind |-> "OfsDelta",
                                                   arg |-> <<add.value>>]
                                   /\ pc' = "read_object_content"
                              ELSE UNCHANGED <<obj_type, pc>>
  /\ UNCHANGED <<file, usize_bits, overflow_checks, magic, version,
                 num_objects, i, type_id, size, shift, objects, obj_start,
                 ofs_start, current, starts>>

\* The length of the slice handed to z.read: buf is Vec::with_capacity(size),
\* which holds no element, so &mut buf[..] is empty whatever the size.
BufLen(sz) == AsUsize(0)

\* read_object_content and the push of the object, lines 77-83 and 89-105.
\* Vec::with_capacity panics on a capacity above isize::MAX.
ReadObjectContent ==
  /\ pc = "read_object_content" /\ Running
  /\ current' = cursor
  /\ IF (usize_bits - 1) \in size
       THEN /\ outcome' = PanicCapacity
            /\ UNCHANGED <<cursor, objects, starts, i, pc>>
       ELSE \E r \in ZlibReadNoRoom(SubSeq(contents, cursor + 1, Len(contents))) :
              IF r.ok /\ BufLen(size) = size
                THEN /\ cursor' = r.total_in + cursor
                     /\ objects' = Append(objects,
                                     [obj_type |-> obj_type, size |-> size,
                                      content |-> <<>>])
                     /\ starts' = Append(starts, obj_start)
                     /\ i' = i + 1
                     /\ pc' = "for"
                     /\ UNCHANGED outcome
                ELSE /\ outcome' = PanicContent
                     /\ UNCHANGED <<cursor, objects, starts, i, pc>>
  /\ UNCHANGED <<file, usize_bits, overflow_checks, magic, version,
                 num_objects, c, type_id, size, shift, obj_type, offset,
                 ofs_shift, obj_start, ofs_start>>

Next ==
  \/ FromFile
  \/ NextObject
  \/ Return
  \/ SizeLoop
  \/ ReadObjectType
  \/ ReadOffset
  \/ ReadObjectContent

Spec == Init /\ [][Next]_vars

(***************************************************************************)
(* What the properties below speak of.                                     *)
(***************************************************************************)
Returned == outcome = "returned"
Panicked == outcome \notin {"running", "returned"}

\* The failures the specification calls Truncated: a read that finds the
\* byte source exhausted.
Truncated == {PanicReadByte, PanicReadBe32}

\* The values a panic of pack.rs carries besides its message: every panic
\* there has a literal message, nothing is formatted into it.
PanicArgs(msg) == <<>>

\* The bytes of `contents` from cursor position `from` up to position `to`.
Consumed(from, to) == SubSeq(contents, from + 1, to)

\* Every byte from position `from` up to position `to` has bit 7 set.
AllContinue(from, to) ==
  \A k \in (from + 1)..to : contents[k] \div 128 = 1

\* The position after the size header that begins at position p: after the
\* first byte from p on that has bit 7 clear.
RECURSIVE HeaderEnd(_)
HeaderEnd(p) == IF contents[p + 1] \div 128 = 1 THEN HeaderEnd(p + 1) ELSE p + 1

\* A whole compressed block begins at position p, and the data it holds.
BlockAt(p) ==
  /\ p + 2 <= Len(contents)
  /\ contents[p + 1] = ZHeader
  /\ p + contents[p + 2] + 3 <= Len(contents)
  /\ contents[p + contents[p + 2] + 3]
       = ZCheck(SubSeq(contents, p + 3, p + contents[p + 2] + 2))
BlockData(p) == SubSeq(contents, p + 3, p + contents[p + 2] + 2)
BlockLen(p) == contents[p + 2] + 3

\* The block at p inflates to exactly the size sz (a usize).
InflatesTo(p, sz) == BlockAt(p) /\ sz = AsUsize(Len(BlockData(p)))

\* The object pushed last.
LastObject == objects[Len(objects)]

\* The content step gave up on the current object.
ContentFailed == pc = "read_object_content" /\ Panicked

(***************************************************************************)
(* C1.  Whenever decoding returns a PackFile, its objects are exactly      *)
(* num_objects many, in stream order: each was decoded from a header that  *)
(* begins after the one before it, and has the kind of that header's tag.  *)
(***************************************************************************)
C1_ObjectCount ==
  Returned =>
    /\ Len(objects) = num_objects
    /\ Len(starts) = num_objects
    /\ \A j \in 1..Len(starts) : \A k \in 1..Len(starts) :
         j < k => starts[j] < starts[k]
    /\ \A k \in 1..Len(starts) :
         LET tag == (contents[starts[k] + 1] \div 16) % 8
         IN /\ tag \in {1, 2, 3, 4, 7}
            /\ objects[k].obj_type.kind
                 = <<"Commit", "Tree", "Blob", "Tag", "", "", "RefDelta">>[tag]

C1_Witness ==
  /\ Returned
  /\ num_objects = 2
  /\ Len(objects) = 2
  /\ objects[1].obj_type.kind # objects[2].obj_type.kind

(***************************************************************************)
(* C2.  Payload exactness: for an object whose size header declares S and  *)
(* whose compressed block inflates to S bytes, decompression succeeds and  *)
(* the object's content is those S bytes.                                  *)
(***************************************************************************)
C2_PayloadExact ==
  /\ ContentFailed => ~InflatesTo(current, size)
  /\ (pc = "for" /\ Len(objects) > 0 /\ InflatesTo(current, LastObject.size)) =>
       /\ LastObject.content = BlockData(current)
       /\ AsUsize(Len(LastObject.content)) = LastObject.size

(***************************************************************************)
(* C3.  Cursor realignment: after the payload of an object is decompressed *)
(* from a block that inflates to its declared size, the cursor is at the   *)
(* payload start plus the length of the compressed block, and the header   *)
(* of the next object is read from there.                                  *)
(***************************************************************************)
C3_CursorRealigned ==
  /\ (pc = "read_object_content" /\ InflatesTo(current, size)) => Running
  /\ (pc = "for" /\ Len(objects) > 0 /\ InflatesTo(current, LastObject.size)) =>
       cursor = current + BlockLen(current)
  /\ (pc = "while" /\ Len(objects) > 0 /\ InflatesTo(current, LastObject.size)) =>
       obj_start = current + BlockLen(current)

(***************************************************************************)
(* C4.  Size-varint correctness.  The size header c0..cn is the bytes from *)
(* the object's start up to the first one with bit 7 clear.  In binary the *)
(* claimed sum (c0 & 0x0F) + sum of (ck & 0x7F) << (4 + 7*(k-1)) is the    *)
(* low four bits of c0 followed by the seven low bits of each ck in turn:  *)
(* the terms occupy disjoint bit ranges.                                   *)
(***************************************************************************)
SizeHeaderRead == pc = "while" /\ Running /\ c \div 128 = 0

SizeHeader == Consumed(obj_start, cursor)

BitsOf(x, n) == {b \in 0..(n - 1) : (x \div Pow2(b)) % 2 = 1}

ClaimedSize(bytes) ==
  BitsOf(bytes[1] % 16, 4)
  \cup UNION {{b + 4 + 7 * (k - 1) : b \in BitsOf(bytes[k + 1] % 128, 7)} :
                k \in 1..(Len(bytes) - 1)}

SizeHeaderDecoded ==
  /\ cursor = HeaderEnd(obj_start)
  /\ size = ClaimedSize(SizeHeader)

\* The claim as stated, for a header of any length.
C4_SizeVarintAnyLength == SizeHeaderRead => SizeHeaderDecoded

\* The bits of a header of n + 1 bytes fit the usize: 4 + 7n <= width.
FitsUsize(bytes) == 4 + 7 * (Len(bytes) - 1) <= usize_bits

\* C4 as amended: for every size header whose bits fit the usize of the
\* target (at most 5 bytes on every target), the decoder consumes exactly
\* the header and yields the claimed size; and it does not give up on one.
C4_SizeVarint ==
  /\ (SizeHeaderRead /\ FitsUsize(SizeHeader)) => SizeHeaderDecoded
  /\ (pc = "while" /\ outcome = PanicOverflow) => ~FitsUsize(SizeHeader)

C4_Witness ==
  /\ SizeHeaderRead
  /\ Len(SizeHeader) = 5
  /\ usize_bits = 32
  /\ 31 \in size /\ 25 \in size

(***************************************************************************)
(* C5.  Offset-delta varint correctness: an object with type tag 6 whose   *)
(* offset is encoded in 1, 2 or 3 bytes (all but the last with bit 7 set)  *)
(* decodes to OfsDelta(d), d starting from b0 & 0x7F and becoming          *)
(* ((d + 1) << 7) + (b & 0x7F) for each further byte.                      *)
(***************************************************************************)
RECURSIVE ClaimedOffset(_, _)
ClaimedOffset(d, bytes) ==
  IF bytes = <<>> THEN d
  ELSE ClaimedOffset((d + 1) * 128 + (Head(bytes) % 128), Tail(bytes))

\* The bytes read since read_offset began are a whole encoding of at most
\* three bytes.
OffsetEncodingRead ==
  /\ type_id = 6
  /\ pc \in {"read_offset", "read_object_content"}
  /\ cursor > ofs_start
  /\ cursor - ofs_start <= 3
  /\ AllContinue(ofs_start, cursor - 1)
  /\ contents[cursor] \div 128 = 0

C5_OffsetDelta ==
  OffsetEncodingRead =>
    LET bytes == Consumed(ofs_start, cursor)
    IN /\ pc = "read_object_content"
       /\ obj_type = [kind |-> "OfsDelta",
                      arg |-> <<ClaimedOffset(Head(bytes) % 128, Tail(bytes))>>]

(***************************************************************************)
(* C6.  Offset-varint termination: read_offset returns as soon as it has   *)
(* read a byte with bit 7 clear and reads no byte after it; and when every *)
(* byte that is left has bit 7 set, it fails with the panic of read_byte   *)
(* once the source is exhausted.                                           *)
(***************************************************************************)
C6_OffsetTerminates ==
  pc = "read_offset" =>
    /\ AllContinue(ofs_start, cursor)
    /\ (Panicked /\ AllContinue(ofs_start, Len(contents))) =>
         outcome = PanicReadByte

(***************************************************************************)
(* C7.  A file of at least 12 bytes whose first four bytes, read as a      *)
(* big-endian 32-bit integer, are not 0x5041434B fails with the panic      *)
(* "Packfile failed to parse" (the specification's BadMagic) as soon as    *)
(* the header is read: no object is decoded, no PackFile returned.         *)
(***************************************************************************)
BigEndian(b) == ((b[1] * 256 + b[2]) * 256 + b[3]) * 256 + b[4]

BadMagicFile ==
  Len(file) >= 12 /\ BigEndian(SubSeq(file, 1, 4)) # 1346454347

HeaderStepTaken == pc # "from_file" \/ ~Running

C7_BadMagic ==
  (BadMagicFile /\ HeaderStepTaken) =>
    /\ outcome = PanicMagic
    /\ pc = "from_file"
    /\ objects = <<>>

C7_Witness ==
  /\ outcome = PanicMagic
  /\ Len(file) > 12
  /\ version = 1
  /\ num_objects = 2

(***************************************************************************)
(* C8.  When the byte source ends before the header and the metadata of    *)
(* all num_objects objects are read (inside the 12 header bytes, before an *)
(* object's first byte, inside its size header, its 20-byte identifier or  *)
(* its offset), decoding fails with a panic of read_byte or read_be_u32    *)
(* (the specification's Truncated) and returns no PackFile.                *)
(***************************************************************************)
MetadataCutShort ==
  \/ Len(file) < 12
  \/ pc = "for" /\ i < num_objects /\ cursor = Len(contents)
  \/ pc = "while" /\ cursor = Len(contents) /\ AllContinue(obj_start, cursor)
  \/ pc = "read_object_type" /\ type_id = 7
       /\ Len(contents) - HeaderEnd(obj_start) < 20
  \/ pc = "read_offset" /\ cursor = Len(contents)
       /\ AllContinue(ofs_start, cursor)

C8_Truncated ==
  (~Running /\ MetadataCutShort) => outcome \in Truncated

(***************************************************************************)
(* C9.  An object whose type tag is 0 or 5 makes decoding fail with        *)
(* UnknownObjectType carrying the tag: the failure of the type dispatch,   *)
(* with the tag among the values it carries.                               *)
(***************************************************************************)
C9_UnknownType ==
  (pc = "read_object_type" /\ ~Running /\ type_id \in {0, 5}) =>
    /\ outcome = PanicObjectType
    /\ PanicArgs(outcome) = <<type_id>>

(***************************************************************************)
(* C10.  Type dispatch: tags 1, 2, 3, 4 give Commit, Tree, Blob, Tag and   *)
(* leave the cursor right after the size header; tag 7 gives RefDelta of   *)
(* the 20 bytes after the size header, in order, and leaves the cursor 20  *)
(* bytes further; the payload is decompressed from there.                  *)
(***************************************************************************)
DispatchAgrees ==
  LET hdr_end == HeaderEnd(obj_start)
  IN /\ type_id \in {1, 2, 3, 4, 7}
     /\ type_id \in 1..4 =>
          /\ obj_type = [kind |-> <<"Commit", "Tree", "Blob", "Tag">>[type_id],
                         arg |-> <<>>]
          /\ cursor = hdr_end
     /\ type_id = 7 =>
          /\ obj_type.kind = "RefDelta"
          /\ Len(obj_type.arg) = 20
          /\ \A k \in 1..20 : obj_type.arg[k] = contents[hdr_end + k]
          /\ cursor = hdr_end + 20

C10_TypeDispatch ==
  /\ (pc = "read_object_content" /\ Running) => DispatchAgrees
  /\ ContentFailed => (DispatchAgrees /\ current = cursor)

C10_Witness ==
  /\ pc = "read_object_content" /\ Running
  /\ type_id = 7
  /\ obj_type.arg = Id20
  /\ Len(objects) = 1
  /\ objects[1].obj_type.kind = "Blob"

====
